---- MODULE Spec2Model ----
(***************************************************************************)
(* A model of ADSBoostPipeline: the record normaliser, the three factor    *)
(* calculators, the combiner, the discipline weight resolver               *)
(* (adsboost/app.py), the Celery task entry points (adsboost/tasks.py)     *)
(* and the boost_factors table (adsboost/models.py).                       *)
(*                                                                         *)
(* Python values are tagged records: [t |-> "str", s |-> ...],             *)
(* [t |-> "dict", d |-> <function from keys>], ...                          *)
(* Python floats are modelled as exact rationals [t |-> "float", n, d]     *)
(* in lowest terms with d > 0; rounding error is not modelled.             *)
(* An exception leaving a function is the value [t |-> "raise", exc].      *)
(***************************************************************************)
EXTENDS Integers, Sequences, FiniteSets, TLC

\* ------------------------------------------------------------------------
\* Python values
\* ------------------------------------------------------------------------
None == [t |-> "none"]
Str(s) == [t |-> "str", s |-> s]
IntV(i) == [t |-> "int", i |-> i]
Bool(b) == [t |-> "bool", b |-> b]
List(l) == [t |-> "list", l |-> l]
Dict(d) == [t |-> "dict", d |-> d]
Raise(e) == [t |-> "raise", exc |-> e]
EmptyMap == [k \in {} |-> None]

IsStr(v) == v.t = "str"
IsDict(v) == v.t = "dict"
IsList(v) == v.t = "list"
IsRaise(v) == v.t = "raise"

RECURSIVE Gcd(_, _)
Gcd(a, b) == IF b = 0 THEN a ELSE Gcd(b, a % b)

Abs(x) == IF x < 0 THEN -x ELSE x

\* the float n/d (d # 0), kept in lowest terms with a positive denominator
F(n, d) ==
    LET g == Gcd(Abs(n), Abs(d))
        s == IF d < 0 THEN -1 ELSE 1
    IN [t |-> "float", n |-> (s * n) \div g, d |-> (s * d) \div g]

Zero == F(0, 1)
One == F(1, 1)
FAdd(a, b) == F(a.n * b.d + b.n * a.d, a.d * b.d)
FSub(a, b) == F(a.n * b.d - b.n * a.d, a.d * b.d)
FMul(a, b) == F(a.n * b.n, a.d * b.d)
\* a / b; Python raises ZeroDivisionError when b = 0
FDiv(a, b) == IF b.n = 0 THEN Raise("ZeroDivisionError") ELSE F(a.n * b.d, a.d * b.n)
FLe(a, b) == a.n * b.d <= b.n * a.d
FLt(a, b) == a.n * b.d < b.n * a.d
FMax(a, b) == IF FLt(a, b) THEN b ELSE a
IsFloat(v) == v.t = "float"

\* bool(v): Python truthiness
Truthy(v) ==
    CASE v.t = "none" -> FALSE
      [] v.t = "bool" -> v.b
      [] v.t = "int" -> v.i # 0
      [] v.t = "float" -> v.n # 0
      [] v.t = "str" -> v.s # ""
      [] v.t = "list" -> Len(v.l) > 0
      [] v.t = "dict" -> DOMAIN v.d # {}
      [] OTHER -> TRUE

\* key in mapping / mapping[key] / mapping.get(key, default), on the TLA+
\* function that carries a dict's items
Has(m, k) == k \in DOMAIN m
Get(m, k, default) == IF k \in DOMAIN m THEN m[k] ELSE default
\* m with m[k] = v
Put(m, k, v) == [x \in DOMAIN m \cup {k} |-> IF x = k THEN v ELSE m[x]]

\* ------------------------------------------------------------------------
\* Strings
\* ------------------------------------------------------------------------
CharAt(s, i) == SubSeq(s, i, i)

LowerChar(c) ==
    CASE c = "A" -> "a" [] c = "B" -> "b" [] c = "C" -> "c" [] c = "D" -> "d"
      [] c = "E" -> "e" [] c = "F" -> "f" [] c = "G" -> "g" [] c = "H" -> "h"
      [] c = "I" -> "i" [] c = "J" -> "j" [] c = "K" -> "k" [] c = "L" -> "l"
      [] c = "M" -> "m" [] c = "N" -> "n" [] c = "O" -> "o" [] c = "P" -> "p"
      [] c = "Q" -> "q" [] c = "R" -> "r" [] c = "S" -> "s" [] c = "T" -> "t"
      [] c = "U" -> "u" [] c = "V" -> "v" [] c = "W" -> "w" [] c = "X" -> "x"
      [] c = "Y" -> "y" [] c = "Z" -> "z" [] OTHER -> c

RECURSIVE MapChars(_, _, _)
\* s with every character c replaced by (IF spaces THEN '_' for ' ' ELSE lower(c))
MapChars(s, i, spaces) ==
    IF i > Len(s) THEN ""
    ELSE LET c == CharAt(s, i)
         IN (IF spaces THEN (IF c = " " THEN "_" ELSE c) ELSE LowerChar(c))
            \o MapChars(s, i + 1, spaces)

\* str.lower()
Lower(s) == MapChars(s, 1, FALSE)
\* str.replace(' ', '_')
ReplaceSpaces(s) == MapChars(s, 1, TRUE)
\* str.endswith(suffix)
EndsWith(s, suffix) ==
    /\ Len(s) >= Len(suffix)
    /\ SubSeq(s, Len(s) - Len(suffix) + 1, Len(s)) = suffix

IsDigit(c) == c \in {"0", "1", "2", "3", "4", "5", "6", "7", "8", "9"}
DigitVal(c) ==
    CASE c = "0" -> 0 [] c = "1" -> 1 [] c = "2" -> 2 [] c = "3" -> 3 [] c = "4" -> 4
      [] c = "5" -> 5 [] c = "6" -> 6 [] c = "7" -> 7 [] c = "8" -> 8 [] c = "9" -> 9

RECURSIVE AllDigits(_, _)
AllDigits(s, i) == i > Len(s) \/ (IsDigit(CharAt(s, i)) /\ AllDigits(s, i + 1))

RECURSIVE ToInt(_, _, _)
ToInt(s, i, acc) ==
    IF i > Len(s) THEN acc ELSE ToInt(s, i + 1, 10 * acc + DigitVal(CharAt(s, i)))

\* position of the first c in s at or after i, 0 when there is none
RECURSIVE Find(_, _, _)
Find(s, c, i) ==
    IF i > Len(s) THEN 0 ELSE IF CharAt(s, i) = c THEN i ELSE Find(s, c, i + 1)

\* ------------------------------------------------------------------------
\* Dates: datetime.strptime(text, '%Y-%m-%d') and day arithmetic
\* ------------------------------------------------------------------------
IsLeap(y) == (y % 4 = 0 /\ y % 100 # 0) \/ y % 400 = 0

DaysInMonth(y, m) ==
    CASE m \in {1, 3, 5, 7, 8, 10, 12} -> 31
      [] m \in {4, 6, 9, 11} -> 30
      [] OTHER -> IF IsLeap(y) THEN 29 ELSE 28

RECURSIVE DaysBeforeMonth(_, _)
DaysBeforeMonth(y, m) ==
    IF m <= 1 THEN 0 ELSE DaysBeforeMonth(y, m - 1) + DaysInMonth(y, m - 1)

\* date(y, m, d).toordinal(): days since 0001-01-01, plus one
Ordinal(y, m, d) ==
    LET p == y - 1
    IN p * 365 + p \div 4 - p \div 100 + p \div 400 + DaysBeforeMonth(y, m) + d

\* the day number of the date y-m-d, or the ValueError of a date that does
\* not exist
MakeDate(y, m, d) ==
    IF y >= 1 /\ m \in 1..12 /\ d >= 1 /\ d <= DaysInMonth(y, m)
    THEN IntV(Ordinal(y, m, d))
    ELSE Raise("ValueError")

\* the three fields of a date text: %Y is four digits, %m and %d one or two
ParseFields(ys, ms, ds) ==
    IF /\ Len(ys) = 4 /\ Len(ms) \in {1, 2} /\ Len(ds) \in {1, 2}
       /\ AllDigits(ys, 1) /\ AllDigits(ms, 1) /\ AllDigits(ds, 1)
    THEN MakeDate(ToInt(ys, 1, 0), ToInt(ms, 1, 0), ToInt(ds, 1, 0))
    ELSE Raise("ValueError")

\* s split at its dashes at p1 and p2
SplitDate(s, p1, p2) ==
    IF p1 = 0 \/ p2 = 0 THEN Raise("ValueError")
    ELSE ParseFields(SubSeq(s, 1, p1 - 1), SubSeq(s, p1 + 1, p2 - 1),
                     SubSeq(s, p2 + 1, Len(s)))

\* s split at its first dash, at p1
SplitAfter(s, p1) == SplitDate(s, p1, IF p1 = 0 THEN 0 ELSE Find(s, "-", p1 + 1))

\* datetime.strptime(v, '%Y-%m-%d') as a day number, a ValueError for a text
\* that is no date, a TypeError for an argument that is not a string
Strptime(v) ==
    IF ~IsStr(v) THEN Raise("TypeError") ELSE SplitAfter(v.s, Find(v.s, "-", 1))

\* ------------------------------------------------------------------------
\* Configuration (config.py)
\* ------------------------------------------------------------------------
\* a table of integer ranks as Python values
Ranks(f) == [k \in DOMAIN f |-> IntV(f[k])]

DOCTYPE_RANKING ==
    [article |-> 1, eprint |-> 1, inproceedings |-> 2, inbook |-> 1, abstract |-> 4,
     book |-> 1, bookreview |-> 4, catalog |-> 2, circular |-> 3, erratum |-> 6,
     mastersthesis |-> 3, newsletter |-> 5, obituary |-> 6, phdthesis |-> 3,
     pressrelease |-> 7, proceedings |-> 3, proposal |-> 4, software |-> 2,
     talk |-> 4, techreport |-> 3, misc |-> 8]

RECENCY_BOOST_MULTIPLIER == F(1, 10)
RECENCY_BOOST_MAX_AGE_MONTHS == 24

BOOST_WEIGHTS ==
    [refereed_boost |-> F(4, 10), doctype_boost |-> F(6, 10), recency_boost |-> F(0, 10)]

COLLECTION_RANKINGS ==
    [astrophysics |-> Ranks([astrophysics |-> 1, planetary |-> 4, physics |-> 2,
                             heliophysics |-> 4, general |-> 3, earthscience |-> 6]),
     physics |-> Ranks([physics |-> 1, astrophysics |-> 3, planetary |-> 3,
                        heliophysics |-> 3, general |-> 2, earthscience |-> 3]),
     earthscience |-> Ranks([earthscience |-> 1, planetary |-> 4, general |-> 2,
                             astrophysics |-> 6, physics |-> 3, heliophysics |-> 5]),
     planetary |-> Ranks([planetary |-> 1, astrophysics |-> 5, earthscience |-> 4,
                          physics |-> 2, heliophysics |-> 2, general |-> 3]),
     heliophysics |-> Ranks([heliophysics |-> 1, astrophysics |-> 6, physics |-> 2,
                             planetary |-> 3, general |-> 2, earthscience |-> 4]),
     general |-> Ranks([general |-> 1, astrophysics |-> 1, physics |-> 1,
                        planetary |-> 1, earthscience |-> 1, heliophysics |-> 1])]

COLLECTIONS ==
    <<"astrophysics", "physics", "earthscience", "planetary", "heliophysics", "general">>

\* the configuration load_config() returns for the repository's config.py
RepoConfig ==
    [DOCTYPE_RANKING |-> DOCTYPE_RANKING,
     RECENCY_BOOST_MULTIPLIER |-> RECENCY_BOOST_MULTIPLIER,
     RECENCY_BOOST_MAX_AGE_MONTHS |-> RECENCY_BOOST_MAX_AGE_MONTHS,
     BOOST_WEIGHTS |-> BOOST_WEIGHTS,
     COLLECTION_RANKINGS |-> COLLECTION_RANKINGS,
     COLLECTIONS |-> COLLECTIONS]

\* the discipline list the code falls back to when COLLECTIONS is not configured
DefaultCollections ==
    <<"astronomy", "physics", "earth_science", "planetary_science", "heliophysics",
      "general">>

\* the weights the combiner falls back to when BOOST_WEIGHTS is empty or absent
DefaultBoostWeights ==
    [refereed_boost |-> F(6, 10), doctype_boost |-> F(4, 10), recency_boost |-> F(0, 10)]

\* ------------------------------------------------------------------------
\* Small helpers over sets and sequences
\* ------------------------------------------------------------------------
Range(f) == {f[x] : x \in DOMAIN f}

RECURSIVE SortAsc(_)
\* sorted(S) for a set of integers
SortAsc(S) ==
    IF S = {} THEN <<>>
    ELSE LET m == CHOOSE x \in S : \A y \in S : x <= y
         IN <<m>> \o SortAsc(S \ {m})

RECURSIVE Reverse(_)
Reverse(q) == IF q = <<>> THEN <<>> ELSE Reverse(Tail(q)) \o <<Head(q)>>

\* the 0-based position enumerate() gives x in q
IndexOf(q, x) == (CHOOSE i \in 1..Len(q) : q[i] = x) - 1

RECURSIVE SumF(_, _)
\* sum() of the floats m[k], k in K
SumF(m, K) ==
    IF K = {} THEN Zero
    ELSE LET k == CHOOSE x \in K : TRUE IN FAdd(m[k], SumF(m, K \ {k}))

\* ------------------------------------------------------------------------
\* Factor calculators (app.py).  A record is the TLA+ function carrying the
\* items of the record dict; cfg is the configuration; clock is
\* datetime.now() as a day number.
\* ------------------------------------------------------------------------
\* value.get(key, default) on an arbitrary Python value: only a dict has .get
PyGet(v, k, default) ==
    IF IsDict(v) THEN Get(v.d, k, default) ELSE Raise("AttributeError")

\* compute_refereed_boost were it to read metrics alone
RefereedFromMetrics(record) ==
    IF /\ Has(record, "metrics") /\ IsDict(record["metrics"])
       /\ Truthy(Get(record["metrics"].d, "refereed", Bool(FALSE)))
    THEN One
    ELSE Zero

compute_refereed_boost(record) ==
    IF /\ Has(record, "metrics") /\ IsDict(record["metrics"])
       /\ Truthy(Get(record["metrics"].d, "refereed", Bool(FALSE)))
    THEN One
    ELSE IF /\ Has(record, "bib_data") /\ IsDict(record["bib_data"])
            /\ Truthy(Get(record["bib_data"].d, "refereed", Bool(FALSE)))
    THEN One
    ELSE Zero

\* v.lower() for the value bib_data.get('doctype', '') returned
LowerDoctype(v) ==
    IF IsRaise(v) THEN v
    ELSE IF IsStr(v) THEN Str(Lower(v.s))
    ELSE Raise("AttributeError")

\* record['bib_data'].get('doctype', '').lower(), '' without bib_data
DoctypeOf(record) ==
    IF ~Has(record, "bib_data") THEN Str("")
    ELSE LowerDoctype(PyGet(record["bib_data"], "doctype", Str("")))

\* RankScore were the position divided by the number of ranks
RankScoreByCount(doctype, doctype_rank, unique_ranks) ==
    IF doctype \in DOMAIN doctype_rank
    THEN FSub(One, F(IndexOf(unique_ranks, doctype_rank[doctype]), Len(unique_ranks)))
    ELSE Zero

\* doctype_scores.get(doctype, 0.0), with rank_to_score built from unique_ranks
RankScore(doctype, doctype_rank, unique_ranks) ==
    IF Len(unique_ranks) = 1 THEN Raise("ZeroDivisionError")
    ELSE IF doctype \in DOMAIN doctype_rank
         THEN FSub(One, F(IndexOf(unique_ranks, doctype_rank[doctype]),
                          Len(unique_ranks) - 1))
         ELSE Zero

\* the score of a lower-cased doctype under DOCTYPE_RANKING
DoctypeScore(doctype, doctype_rank) ==
    IF IsRaise(doctype) THEN doctype
    ELSE IF DOMAIN doctype_rank = {} THEN Zero
    ELSE RankScore(doctype.s, doctype_rank, SortAsc(Range(doctype_rank)))

compute_doctype_boost(record, cfg) ==
    DoctypeScore(DoctypeOf(record), Get(cfg, "DOCTYPE_RANKING", EmptyMap))

\* the age above which the recency boost is switched off, in months
CutoffMonths == 24
\* days per month used to turn an age in days into months
DaysPerMonth == F(3044, 100)

\* pub_date after the "-00" day substitution; AttributeError for a truthy
\* value without .endswith
SubstituteDay(pub_date) ==
    IF ~Truthy(pub_date) THEN pub_date
    ELSE IF ~IsStr(pub_date) THEN Raise("AttributeError")
    ELSE IF EndsWith(pub_date.s, "-00")
         THEN Str(SubSeq(pub_date.s, 1, Len(pub_date.s) - 2) \o "01")
         ELSE pub_date

\* min(pub_datetime, entry_datetime), None when either strptime raised
EarlierOf(p, e) ==
    IF IsRaise(p) \/ IsRaise(e) THEN None
    ELSE IntV(IF p.i <= e.i THEN p.i ELSE e.i)

\* the date parsed alone, None when strptime raised
OnlyDate(p) == IF IsRaise(p) THEN None ELSE p

\* the reference date chosen from pub_date (after the substitution) and
\* entry_date
ChooseReference(pub_date, entry_date) ==
    IF IsRaise(pub_date) THEN pub_date
    ELSE IF Truthy(pub_date) /\ Truthy(entry_date)
         THEN EarlierOf(Strptime(pub_date), Strptime(entry_date))
    ELSE IF Truthy(pub_date) THEN OnlyDate(Strptime(pub_date))
    ELSE OnlyDate(Strptime(entry_date))

\* the reference date from the two values bib_data.get returned
ReferenceOf(pub_date, entry_date) ==
    IF IsRaise(pub_date) THEN pub_date
    ELSE IF ~Truthy(pub_date) /\ ~Truthy(entry_date) THEN None
    ELSE ChooseReference(SubstituteDay(pub_date), entry_date)

\* the reference date as a day number, None where the code returns the
\* neutral 1.0, or the exception
ReferenceDate(record) ==
    IF ~Has(record, "bib_data") THEN None
    ELSE ReferenceOf(PyGet(record["bib_data"], "pubdate", None),
                     PyGet(record["bib_data"], "entry_date", None))

\* the boost of an age in months, were the 24-month switch-off left out
DecayWithoutCutoff(age_months, multiplier) ==
    FDiv(One, FAdd(One, FMul(multiplier, age_months)))

\* the boost of an age in months
DecayMonths(age_months, multiplier) ==
    IF FLt(F(CutoffMonths, 1), age_months) THEN One
    ELSE FDiv(One, FAdd(One, FMul(multiplier, age_months)))

\* the boost of an age of `days` days
Decay(days, cfg) ==
    DecayMonths(FDiv(F(days, 1), DaysPerMonth),
                Get(cfg, "RECENCY_BOOST_MULTIPLIER", F(1, 10)))

\* the boost for a reference date
RecencyOf(reference_date, clock, cfg) ==
    IF IsRaise(reference_date) THEN reference_date
    ELSE IF reference_date = None THEN One
    ELSE Decay(clock - reference_date.i, cfg)

compute_recency_boost(record, clock, cfg) ==
    RecencyOf(ReferenceDate(record), clock, cfg)

\* ------------------------------------------------------------------------
\* Discipline weight resolver (app.py, compute_collection_weights)
\* ------------------------------------------------------------------------
RECURSIVE DigitsOf(_)
DigitsOf(n) ==
    IF n < 10 THEN SubSeq("0123456789", n + 1, n + 1)
    ELSE DigitsOf(n \div 10) \o SubSeq("0123456789", (n % 10) + 1, (n % 10) + 1)

\* str(v) for the values a collection list holds
PyStr(v) ==
    CASE v.t = "str" -> v.s
      [] v.t = "int" -> IF v.i < 0 THEN "-" \o DigitsOf(-v.i) ELSE DigitsOf(v.i)
      [] v.t = "bool" -> IF v.b THEN "True" ELSE "False"
      [] OTHER -> "<" \o v.t \o ">"

\* [str(v).lower().replace(' ', '_') for v in raw_values if v]
RECURSIVE NormalizeNames(_)
NormalizeNames(raw_values) ==
    IF raw_values = <<>> THEN <<>>
    ELSE (IF Truthy(Head(raw_values))
          THEN <<ReplaceSpaces(Lower(PyStr(Head(raw_values))))>>
          ELSE <<>>)
         \o NormalizeNames(Tail(raw_values))

\* raw_values when they come from a truthy classifications
FromClassifications(c) ==
    IF IsStr(c) THEN List(<<c>>) ELSE IF IsList(c) THEN c ELSE None

\* raw_values when they come from bib_data.get('database')
FromDatabase(db) == IF IsRaise(db) THEN db ELSE IF Truthy(db) THEN db ELSE None

\* raw_values: the collection source the code selects (None when there is
\* none), or the exception
RawCollections(record) ==
    IF Has(record, "classifications") /\ Truthy(record["classifications"])
    THEN FromClassifications(record["classifications"])
    ELSE IF ~Has(record, "bib_data") THEN None
    ELSE FromDatabase(PyGet(record["bib_data"], "database", None))

\* record_collections before the default
NamesOf(raw_values) ==
    IF IsList(raw_values) THEN NormalizeNames(raw_values.l)
    ELSE IF IsStr(raw_values) /\ raw_values.s # ""
         THEN <<ReplaceSpaces(Lower(raw_values.s))>>
    ELSE <<>>

\* record_collections with the default ['general']
OrGeneral(names) == IF names = <<>> THEN <<"general">> ELSE names

\* record_collections, the record's own collections, or the exception
CollectionsOf(raw_values) ==
    IF IsRaise(raw_values) THEN raw_values ELSE List(OrGeneral(NamesOf(raw_values)))

RecordCollections(record) == CollectionsOf(RawCollections(record))

\* all_ranks: every rank other than None found in the rankings
AllRanks(collection_rankings) ==
    {collection_rankings[x[1]][x[2]].i :
        x \in {y \in UNION {{<<c, d>> : d \in DOMAIN collection_rankings[c]} :
                            c \in DOMAIN collection_rankings} :
                 collection_rankings[y[1]][y[2]] # None}}

\* RankToWeight were the weights spread from 1.0 down to 0.0
RankToWeightToZero(sorted_ranks, rank) ==
    IF Len(sorted_ranks) = 1 THEN One
    ELSE FSub(One, F(IndexOf(sorted_ranks, rank), Len(sorted_ranks) - 1))

\* rank_to_weight[rank] for a rank of sorted_ranks
RankToWeight(sorted_ranks, rank) ==
    IF Len(sorted_ranks) = 1 THEN One
    ELSE FSub(One, F(9 * IndexOf(sorted_ranks, rank), 10 * (Len(sorted_ranks) - 1)))

\* max(max_weight, rank_to_weight.get(rank, 0.0)) for the rank of one
\* collection table, max_weight when the table has none
RaiseWeight(max_weight, rank, sorted_ranks) ==
    IF rank = None THEN max_weight
    ELSE FMax(max_weight,
              IF \E i \in 1..Len(sorted_ranks) : sorted_ranks[i] = rank.i
              THEN RankToWeight(sorted_ranks, rank.i)
              ELSE Zero)

RECURSIVE MaxWeight(_, _, _, _, _)
\* max_weight of a discipline over record_collections, from max_weight
MaxWeight(record_collections, discipline, collection_rankings, sorted_ranks, max_weight) ==
    IF record_collections = <<>> THEN max_weight
    ELSE MaxWeight(Tail(record_collections), discipline, collection_rankings, sorted_ranks,
                   RaiseWeight(max_weight,
                               Get(Get(collection_rankings, Head(record_collections),
                                       EmptyMap),
                                   discipline, None),
                               sorted_ranks))

\* RankedWeight were general ranked by its table like any other collection
RankedLikeAnyOther(record_collections, discipline, collection_rankings, all_ranks) ==
    IF all_ranks = {} THEN One
    ELSE MaxWeight(record_collections, discipline, collection_rankings,
                   Reverse(SortAsc(all_ranks)), Zero)

\* the weight of one discipline under a non-empty COLLECTION_RANKINGS
RankedWeight(record_collections, discipline, collection_rankings, all_ranks) ==
    IF all_ranks = {} THEN One
    ELSE IF \E i \in 1..Len(record_collections) : record_collections[i] = "general"
         THEN One
    ELSE MaxWeight(record_collections, discipline, collection_rankings,
                   Reverse(SortAsc(all_ranks)), Zero)

\* the weight of one discipline of the configured COLLECTIONS
WeightUnder(record_collections, discipline, collection_rankings) ==
    IF DOMAIN collection_rankings = {} THEN One
    ELSE RankedWeight(record_collections, discipline, collection_rankings,
                      AllRanks(collection_rankings))

DisciplineWeight(record_collections, discipline, cfg) ==
    WeightUnder(record_collections, discipline, Get(cfg, "COLLECTION_RANKINGS", EmptyMap))

\* the discipline a key f'{collection}{suffix}' belongs to
DisciplineOf(key, collections, suffix) ==
    CHOOSE c \in Range(collections) : c \o suffix = key

\* the result dict {f'{collection}_weight': weight}, or the exception
WeightsOf(rc, collections, cfg) ==
    IF IsRaise(rc) THEN rc
    ELSE Dict([k \in {c \o "_weight" : c \in Range(collections)} |->
                 DisciplineWeight(rc.l, DisciplineOf(k, collections, "_weight"), cfg)])

compute_collection_weights(record, cfg) ==
    WeightsOf(RecordCollections(record), Get(cfg, "COLLECTIONS", DefaultCollections), cfg)

\* ------------------------------------------------------------------------
\* Combiner and assembler (app.py, compute_final_boost)
\* ------------------------------------------------------------------------
FactorNames == {"refereed_boost", "doctype_boost", "recency_boost"}

\* WeightedAverage were the weights used as configured, not normalised
WeightedSum(boost_factors, weights, total_weight) ==
    IF ~(FactorNames \subseteq DOMAIN weights) THEN Raise("KeyError")
    ELSE SumF([f \in FactorNames |-> FMul(boost_factors[f], weights[f])], FactorNames)

\* the weighted average under weights that sum to total_weight > 0
WeightedAverage(boost_factors, weights, total_weight) ==
    IF ~(FactorNames \subseteq DOMAIN weights) THEN Raise("KeyError")
    ELSE SumF([f \in FactorNames |->
                 FMul(boost_factors[f], FDiv(weights[f], total_weight))],
              FactorNames)

\* boost_factor under the weights in use
CombineWith(boost_factors, weights, total_weight) ==
    IF FLt(Zero, total_weight)
    THEN WeightedAverage(boost_factors, weights, total_weight)
    ELSE FDiv(SumF(boost_factors, FactorNames), F(3, 1))

\* the weights in use: the configured ones, the default for an empty table
WeightsInUse(configured) ==
    IF DOMAIN configured = {} THEN DefaultBoostWeights ELSE configured

\* boost_factor from the three factors under `weights`
CombineUnder(boost_factors, weights) ==
    CombineWith(boost_factors, weights, SumF(weights, DOMAIN weights))

\* boost_factor from the three factors (a function over FactorNames)
Combine(boost_factors, cfg) ==
    CombineUnder(boost_factors, WeightsInUse(Get(cfg, "BOOST_WEIGHTS", EmptyMap)))

\* the result dict: the factors, the weights, the final boosts, boost_factor
Result(boost_factors, boost_factor, collection_weights, collections) ==
    IF IsRaise(boost_factor) THEN boost_factor
    ELSE IF IsRaise(collection_weights) THEN collection_weights
    ELSE Dict([k \in FactorNames \cup {"boost_factor"}
                       \cup {c \o "_weight" : c \in Range(collections)}
                       \cup {c \o "_final_boost" : c \in Range(collections)} |->
            CASE k \in FactorNames -> boost_factors[k]
              [] k = "boost_factor" -> boost_factor
              [] \E c \in Range(collections) : k = c \o "_weight" ->
                   collection_weights.d[k]
              [] OTHER ->
                   FMul(collection_weights.d[
                            DisciplineOf(k, collections, "_final_boost") \o "_weight"],
                        boost_factor)])

\* steps 2 to 4 for the three factors of step 1
Assemble(boost_factors, record, cfg) ==
    Result(boost_factors, Combine(boost_factors, cfg),
           compute_collection_weights(record, cfg),
           Get(cfg, "COLLECTIONS", DefaultCollections))

\* step 1: the three factors, or the first exception among them
Factors(refereed, doctype, recency) ==
    IF IsRaise(doctype) THEN doctype
    ELSE IF IsRaise(recency) THEN recency
    ELSE [f \in FactorNames |->
            CASE f = "refereed_boost" -> refereed
              [] f = "doctype_boost" -> doctype
              [] f = "recency_boost" -> recency]

\* the result for the outcome of step 1
FinalBoost(boost_factors, record, cfg) ==
    IF DOMAIN boost_factors = FactorNames
    THEN Assemble(boost_factors, record, cfg)
    ELSE boost_factors

\* the result dict of compute_final_boost, or the exception that leaves it
compute_final_boost(record, clock, cfg) ==
    FinalBoost(Factors(compute_refereed_boost(record),
                       compute_doctype_boost(record, cfg),
                       compute_recency_boost(record, clock, cfg)),
               record, cfg)

\* ------------------------------------------------------------------------
\* Record normaliser (app.py, _parse_master_pipeline_message)
\* ------------------------------------------------------------------------
\* json.loads on the texts the model's messages carry; any other text is
\* not JSON
json_loads(s) ==
    CASE s = "{}" -> Dict(EmptyMap)
      [] s = "[]" -> List(<<>>)
      [] s = "null" -> None
      [] s = "5" -> IntV(5)
      [] s = "{\"refereed\": true}" -> Dict([refereed |-> Bool(TRUE)])
      [] s = "{\"doctype\": \"article\", \"refereed\": true}" ->
            Dict([doctype |-> Str("article"), refereed |-> Bool(TRUE)])
      [] s = "{\"scix_id\": \"s1\"}" -> Dict([scix_id |-> Str("s1")])
      [] s = "{\"bibcode\": \"b1\", \"bib_data\": \"{\\\"refereed\\\": true}\"}" ->
            Dict([bibcode |-> Str("b1"), bib_data |-> Str("{\"refereed\": true}")])
      [] OTHER -> Raise("JSONDecodeError")

\* the bib_data / metrics step: the value of parsed[key] after it
OrEmptyDict(v) == IF IsRaise(v) THEN Dict(EmptyMap) ELSE v

DecodeSection(parsed, key) ==
    IF Has(parsed, key) /\ IsStr(parsed[key]) THEN OrEmptyDict(json_loads(parsed[key].s))
    ELSE IF ~Has(parsed, key) THEN Dict(EmptyMap)
    ELSE parsed[key]

RECURSIVE KeysOf(_)
\* the keys of a dict as a list (one fixed order per key set)
KeysOf(K) ==
    IF K = {} THEN <<>>
    ELSE LET k == CHOOSE x \in K : TRUE IN <<Str(k)>> \o KeysOf(K \ {k})

\* list(v)
PyList(v) ==
    CASE v.t = "list" -> v
      [] v.t = "dict" -> List(KeysOf(DOMAIN v.d))
      [] OTHER -> Raise("TypeError")

\* the classifications / collections step: the value of parsed[key] after
\* it, or the exception list() raises
CoerceSequence(parsed, key) ==
    IF Has(parsed, key) /\ ~IsList(parsed[key])
    THEN IF IsStr(parsed[key]) /\ Truthy(parsed[key]) THEN List(<<parsed[key]>>)
         ELSE IF Truthy(parsed[key]) THEN PyList(parsed[key])
         ELSE List(<<>>)
    ELSE IF ~Has(parsed, key) THEN List(<<>>)
    ELSE parsed[key]

\* the safe default structure, were the identifiers of the request left out
SafeDefaultBlank(request) ==
    [bibcode |-> Str(""),
     scix_id |-> Str(""),
     status |-> Str("error"),
     bib_data |-> Dict(EmptyMap),
     metrics |-> Dict(EmptyMap),
     classifications |-> List(<<>>),
     collections |-> List(<<>>)]

\* the safe default structure of the except branch
SafeDefault(request) ==
    [bibcode |-> Get(request, "bibcode", Str("")),
     scix_id |-> Get(request, "scix_id", Str("")),
     status |-> Str("error"),
     bib_data |-> Dict(EmptyMap),
     metrics |-> Dict(EmptyMap),
     classifications |-> List(<<>>),
     collections |-> List(<<>>)]

\* the "ensure required fields exist" step
WithDefaults(parsed) ==
    [k \in DOMAIN parsed \cup {"bibcode", "scix_id", "status"} |->
        IF k \in DOMAIN parsed THEN parsed[k]
        ELSE IF k = "status" THEN Str("unknown") ELSE Str("")]

\* the record for the outcomes of the two list coercions
Normalised(request, classifications, collections) ==
    IF IsRaise(classifications) \/ IsRaise(collections)
    THEN SafeDefault(request)
    ELSE WithDefaults(
           Put(Put(Put(Put(request, "bib_data", DecodeSection(request, "bib_data")),
                       "metrics", DecodeSection(request, "metrics")),
                   "classifications", classifications),
               "collections", collections))

\* the record _parse_master_pipeline_message returns for a request dict
_parse_master_pipeline_message(request) ==
    Normalised(request, CoerceSequence(request, "classifications"),
               CoerceSequence(request, "collections"))

\* ------------------------------------------------------------------------
\* The boost_factors table (models.py) and its queries (app.py)
\* ------------------------------------------------------------------------
\* the Float columns of BoostFactors
Columns ==
    {"refereed_boost", "doctype_boost", "recency_boost", "boost_factor",
     "astronomy_weight", "physics_weight", "earth_science_weight",
     "planetary_science_weight", "heliophysics_weight", "general_weight",
     "astronomy_final_boost", "physics_final_boost", "earth_science_final_boost",
     "planetary_science_final_boost", "heliophysics_final_boost", "general_final_boost"}

\* the columns store_boost_factors assigns, on the update and on the create path
AssignedColumns == Columns \ {"boost_factor"}

\* the value store_boost_factors assigns to a column: boost_factors[...] for the
\* three base factors, boost_factors.get(...) for the others
AssignedValue(boost_factors, column) == Get(boost_factors.d, column, None)

\* the filter of store_boost_factors: a row equal on a non-NULL bibcode or on a
\* non-NULL scix_id
Matches(row, bibcode, scix_id) ==
    \/ (bibcode # None /\ row.bibcode = bibcode)
    \/ (scix_id # None /\ row.scix_id = scix_id)

\* the ids of the rows the filter selects
MatchingRows(rows, bibcode, scix_id) ==
    {i \in 1..Len(rows) : Matches(rows[i], bibcode, scix_id)}

\* the row after the update path
UpdatedRow(row, boost_factors) ==
    [row EXCEPT !.cols = [c \in Columns |->
        IF c \in AssignedColumns THEN AssignedValue(boost_factors, c) ELSE row.cols[c]]]

\* the row the create path adds
NewRow(bibcode, scix_id, boost_factors) ==
    [bibcode |-> bibcode, scix_id |-> scix_id,
     cols |-> [c \in Columns |->
        IF c \in AssignedColumns THEN AssignedValue(boost_factors, c) ELSE None]]

\* the fields query_boost_factors returns for a row
QueryFields == {"bibcode", "scix_id"} \cup AssignedColumns

\* query_boost_factors(bibcode, scix_id): the set of result dicts
query_boost_factors(rows, bibcode, scix_id) ==
    LET hit(row) == IF Truthy(bibcode) THEN row.bibcode = bibcode
                    ELSE IF Truthy(scix_id) THEN row.scix_id = scix_id
                    ELSE FALSE
    IN {[k \in QueryFields |->
            CASE k = "bibcode" -> rows[i].bibcode
              [] k = "scix_id" -> rows[i].scix_id
              [] OTHER -> rows[i].cols[k]] : i \in {j \in 1..Len(rows) : hit(rows[j])}}

\* the record_dict task_export_boost_factors writes for a row (tasks.py)
ExportRecord(row) ==
    [k \in {"bibcode", "scix_id"} \cup Columns |->
        CASE k = "bibcode" -> row.bibcode
          [] k = "scix_id" -> row.scix_id
          [] OTHER -> row.cols[k]]

\* the response send_to_master_pipeline builds
ResponseMessage(parsed_record, boost_factors) ==
    [k \in {"bibcode", "scix_id", "status", "doctype_boost", "refereed_boost",
            "recency_boost", "boost_factor", "astronomy_final_boost",
            "physics_final_boost", "earth_science_final_boost",
            "planetary_science_final_boost", "heliophysics_final_boost",
            "general_final_boost"} |->
        CASE k = "bibcode" -> parsed_record["bibcode"]
          [] k = "scix_id" -> parsed_record["scix_id"]
          [] k = "status" -> IntV(3)
          [] OTHER -> Get(boost_factors.d, k, Zero)]

\* ------------------------------------------------------------------------
\* State
\* ------------------------------------------------------------------------
VARIABLES
    now,        \* datetime.now(), as a day number
    config,     \* the configuration loaded at start-up
    inbox,      \* the messages the queues may deliver
    pool,       \* the workers that consume the queues
    limit,      \* how many deliveries the run covers
    delivered,  \* deliveries so far
    table,      \* the rows of boost_factors, in id order
    outbox,     \* the responses forwarded to the master pipeline
    wk          \* per worker: the task it runs and where it is

vars == <<now, config, inbox, pool, limit, delivered, table, outbox, wk>>

\* bounds of the model
NumWorkers == 2
MaxDeliveries == 2
MaxTicks == 1

Workers == 1..NumWorkers

\* the day the run starts
Today0 == Ordinal(2025, 6, 15)

Idle ==
    [pc |-> "idle", entry |-> "", delivery |-> 0, request |-> None, parsed |-> EmptyMap,
     boost_factors |-> None, scored_at |-> 0, existing |-> 0, store_calls |-> 0,
     stored |-> FALSE, outcome |-> None]

\* ------------------------------------------------------------------------
\* Task entry points (tasks.py) and process_boost_request (app.py)
\* ------------------------------------------------------------------------
\* what json.loads(message) or the message dict gives process_boost_request
RequestOf(parsed_message) ==
    IF IsRaise(parsed_message) THEN parsed_message
    ELSE IF ~IsDict(parsed_message) THEN Raise("AttributeError")
    ELSE parsed_message

\* handle_message_payload up to the call of process_boost_request: the request
\* dict, or the exception
DecodeMessage(message) ==
    RequestOf(IF IsStr(message) THEN json_loads(message.s)
              ELSE IF IsDict(message) THEN message
              ELSE Raise("ValueError"))

\* a task that has scored its record: it raises what the scoring raised, or
\* goes on to next_pc
Scored(self, boost_factors, clock, next_pc) ==
    IF IsRaise(boost_factors)
    THEN [self EXCEPT !.pc = "done", !.boost_factors = boost_factors,
                      !.scored_at = clock, !.outcome = boost_factors]
    ELSE [self EXCEPT !.pc = next_pc, !.boost_factors = boost_factors,
                      !.scored_at = clock]

\* process_boost_request after the normalisation, up to the store
ProcessParsed(self, clock, cfg) ==
    IF ~Truthy(Get(self.parsed, "bibcode", None))
    THEN [self EXCEPT !.pc = "done", !.outcome = Str("success")]
    ELSE Scored(self, compute_final_boost(self.parsed, clock, cfg), clock, "query")

\* process_boost_request for a decoded message
ProcessDecoded(self, request, clock, cfg) ==
    IF IsRaise(request)
    THEN [self EXCEPT !.pc = "done", !.outcome = request]
    ELSE ProcessParsed([self EXCEPT !.request = request,
                                    !.parsed = _parse_master_pipeline_message(request.d)],
                       clock, cfg)

\* task_process_boost_request_message up to the call of store_boost_factors:
\* the worker's state after it
ProcessRequest(self, message, clock, cfg) ==
    ProcessDecoded(self, DecodeMessage(message), clock, cfg)

\* task_compute_boost_factors after the scoring: stored only with an identifier
ComputeScored(self) ==
    IF self.pc = "check"
    THEN IF \/ Truthy(Get(self.parsed, "bibcode", None))
            \/ Truthy(Get(self.parsed, "scix_id", None))
         THEN [self EXCEPT !.pc = "query"]
         ELSE [self EXCEPT !.pc = "done", !.outcome = self.boost_factors]
    ELSE self

\* task_compute_boost_factors up to the call of task_store_boost_factors
ComputeTask(self, record_data, clock, cfg) ==
    IF ~IsDict(record_data)
    THEN [self EXCEPT !.pc = "done", !.outcome = Raise("AttributeError")]
    ELSE ComputeScored(
           Scored([self EXCEPT !.request = record_data, !.parsed = record_data.d],
                  compute_final_boost(record_data.d, clock, cfg), clock, "check"))

\* the identifiers store_boost_factors is called with
StoreBibcode(self) == Get(self.parsed, "bibcode", None)
StoreScixId(self) == Get(self.parsed, "scix_id", None)

\* a worker takes a message off update-record and runs
\* task_process_boost_request_message up to the store
ReceiveMessage(w) ==
    /\ w \in pool
    /\ wk[w].pc \in {"idle", "done"}
    /\ delivered < limit
    /\ \E message \in inbox :
         wk' = [wk EXCEPT ![w] =
                  ProcessRequest([Idle EXCEPT !.entry = "message",
                                              !.delivery = delivered + 1],
                                 message, now, config)]
    /\ delivered' = delivered + 1
    /\ UNCHANGED <<now, config, inbox, pool, limit, table, outbox>>

\* a worker takes a record off compute-boost and runs
\* task_compute_boost_factors up to the store
ReceiveCompute(w) ==
    /\ w \in pool
    /\ wk[w].pc \in {"idle", "done"}
    /\ delivered < limit
    /\ \E record_data \in inbox :
         wk' = [wk EXCEPT ![w] =
                  ComputeTask([Idle EXCEPT !.entry = "compute",
                                           !.delivery = delivered + 1],
                              record_data, now, config)]
    /\ delivered' = delivered + 1
    /\ UNCHANGED <<now, config, inbox, pool, limit, table, outbox>>

\* what .first() may return for the rows `hits`: one of them, 0 (None) for none
FirstOf(hits) == IF hits = {} THEN {0} ELSE hits

\* store_boost_factors: the query for an existing record; .first() has no
\* ORDER BY, so any matching row may be the one returned
StoreQuery(w) ==
    /\ wk[w].pc = "query"
    /\ \E i \in FirstOf(MatchingRows(table, StoreBibcode(wk[w]), StoreScixId(wk[w]))) :
         wk' = [wk EXCEPT ![w].pc = "commit", ![w].existing = i,
                          ![w].store_calls = @ + 1]
    /\ UNCHANGED <<now, config, inbox, pool, limit, delivered, table, outbox>>

\* where a task goes after store_boost_factors returned
AfterStore(self) ==
    IF self.entry = "message"
    THEN [self EXCEPT !.pc = "forward", !.stored = TRUE]
    ELSE [self EXCEPT !.pc = "done", !.stored = TRUE, !.outcome = self.boost_factors]

\* store_boost_factors: the update or the insert, and session.commit()
StoreCommit(w) ==
    /\ wk[w].pc = "commit"
    /\ table' = IF wk[w].existing # 0
                THEN [table EXCEPT ![wk[w].existing] = UpdatedRow(@, wk[w].boost_factors)]
                ELSE Append(table, NewRow(StoreBibcode(wk[w]), StoreScixId(wk[w]),
                                          wk[w].boost_factors))
    /\ wk' = [wk EXCEPT ![w] = AfterStore(@)]
    /\ UNCHANGED <<now, config, inbox, pool, limit, delivered, outbox>>

\* where a task would go, were the exception logged and not raised again:
\* process_boost_request goes on after a failed store, the task reports success
AfterRaiseSwallowed(self, exc) ==
    IF self.entry = "message" /\ ~self.stored
    THEN [self EXCEPT !.pc = "forward"]
    ELSE [self EXCEPT !.pc = "done", !.outcome = Str("success")]

\* where a task goes when store_boost_factors or send_to_master_pipeline
\* raised: every handler on the way up logs and re-raises
AfterRaise(self, exc) == [self EXCEPT !.pc = "done", !.outcome = Raise(exc)]

\* store_boost_factors: the session raises (the database is unreachable, the
\* commit fails); nothing is written
StoreFail(w) ==
    /\ wk[w].pc \in {"query", "commit"}
    /\ wk' = [wk EXCEPT ![w] = AfterRaise([@ EXCEPT !.store_calls =
                                   IF @ = 0 THEN 1 ELSE @], "OperationalError")]
    /\ UNCHANGED <<now, config, inbox, pool, limit, delivered, table, outbox>>

\* send_to_master_pipeline: what is forwarded (a sequence of responses) for
\* the original record
Responses(parsed_record, self) ==
    IF ~Truthy(Get(parsed_record, "bibcode", None)) THEN <<>>
    ELSE <<[delivery |-> self.delivery,
            message |-> ResponseMessage(parsed_record, self.boost_factors)]>>

send_to_master_pipeline(self) ==
    Responses(_parse_master_pipeline_message(self.request.d), self)

\* send_to_master_pipeline returns, and the task with it
Forward(w) ==
    /\ wk[w].pc = "forward"
    /\ outbox' = outbox \o send_to_master_pipeline(wk[w])
    /\ wk' = [wk EXCEPT ![w].pc = "done", ![w].outcome = Str("success")]
    /\ UNCHANGED <<now, config, inbox, pool, limit, delivered, table>>

\* send_to_master_pipeline: forward_message (or the protobuf conversion) raises
ForwardFail(w) ==
    /\ wk[w].pc = "forward"
    /\ wk' = [wk EXCEPT ![w] = AfterRaise(@, "TransportError")]
    /\ UNCHANGED <<now, config, inbox, pool, limit, delivered, table, outbox>>

\* a day passes
Tick ==
    /\ now < Today0 + MaxTicks
    /\ now' = now + 1
    /\ UNCHANGED <<config, inbox, pool, limit, delivered, table, outbox, wk>>

Next ==
    \/ \E w \in Workers : ReceiveMessage(w)
    \/ \E w \in Workers : ReceiveCompute(w)
    \/ \E w \in Workers : StoreQuery(w)
    \/ \E w \in Workers : StoreCommit(w)
    \/ \E w \in Workers : StoreFail(w)
    \/ \E w \in Workers : Forward(w)
    \/ \E w \in Workers : ForwardFail(w)
    \/ Tick

\* ------------------------------------------------------------------------
\* Messages and specifications
\* ------------------------------------------------------------------------
\* a marker for a key the message does not carry
Absent == [t |-> "absent"]
\* the dict with the items of r whose value is not Absent
Strip(r) == Dict([k \in {x \in DOMAIN r : r[x] # Absent} |-> r[k]])

Message(bibcode, scix_id, bib_data, metrics, classifications) ==
    Strip([bibcode |-> bibcode, scix_id |-> scix_id, bib_data |-> bib_data,
           metrics |-> metrics, classifications |-> classifications])

BibData(doctype, refereed, pubdate, entry_date, database) ==
    Strip([doctype |-> doctype, refereed |-> refereed, pubdate |-> pubdate,
           entry_date |-> entry_date, database |-> database])

\* the messages of the system specification: two records of one bibcode (the
\* second dated in the future), a record with a scix_id only, and a record
\* without identifier
SystemInbox ==
    {Message(Str("b1"), Str("s1"),
             BibData(Str("article"), Bool(TRUE), Str("2025-06-10"), Absent, Absent),
             Absent, List(<<Str("astrophysics")>>)),
     Message(Str("b1"), Absent,
             BibData(Str("erratum"), Absent, Str("2025-07-20"), Absent, Absent),
             Absent, Absent),
     Message(Absent, Str("s1"),
             BibData(Str("eprint"), Absent, Absent, Absent, Str("physics")),
             Dict([refereed |-> Bool(TRUE)]), Absent),
     Message(Absent, Absent,
             BibData(Str("article"), Bool(TRUE), Absent, Absent, Absent),
             Absent, Absent)}

InitWith(cfgs, inboxes, workers, n) ==
    /\ now = Today0
    /\ config \in cfgs
    /\ inbox \in inboxes
    /\ pool = workers
    /\ limit = n
    /\ delivered = 0
    /\ table = <<>>
    /\ outbox = <<>>
    /\ wk = [w \in Workers |-> Idle]

\* the workers of one deployment share the table, the clock and the queues
Init == InitWith({RepoConfig}, {SystemInbox}, Workers, MaxDeliveries)

Spec == Init /\ [][Next]_vars

\* ------------------------------------------------------------------------
\* One worker that takes its messages one after the other: records of two
\* bibcodes, none with a scix_id
\* ------------------------------------------------------------------------
StoreMessages ==
    {Message(Str("b1"), Absent,
             BibData(Str("erratum"), Absent, Str("2025-06-10"), Absent, Absent),
             Absent, Absent),
     Message(Str("b1"), Absent,
             BibData(Str("article"), Bool(TRUE), Absent, Absent, Absent),
             Absent, Absent),
     Message(Str("b2"), Absent,
             BibData(Str("phdthesis"), Bool(TRUE), Absent, Absent, Str("physics")),
             Absent, Absent)}

InitStore == InitWith({RepoConfig}, {StoreMessages}, {CHOOSE w \in Workers : TRUE},
                      MaxDeliveries)

SpecStore == InitStore /\ [][Next]_vars

\* ------------------------------------------------------------------------
\* The engine on one message at a time: well-formed and malformed records
\* under the repository's configuration and under one that weighs recency
\* ------------------------------------------------------------------------
EngineWorkers == 1
EngineDeliveries == 1

\* a message with bibcode b1 and the given bib_data
WithBibData(bib_data) == Message(Str("b1"), Absent, bib_data, Absent, Absent)

\* a message with bibcode b1 and the given classifications
WithClassifications(classifications) ==
    Message(Str("b1"), Absent, Absent, Absent, classifications)

WellFormedMessages ==
    {Message(Str("b1"), Str("s1"),
             BibData(Str("Article"), Bool(TRUE), Str("2025-06-10"), Absent, Absent),
             Absent, List(<<Str("astrophysics")>>)),
     WithBibData(BibData(Str("erratum"), Absent, Str("2025-07-20"), Absent, Absent)),
     WithBibData(BibData(Str("phdthesis"), Absent, Str("2025-06-00"), Str("2025-05-20"),
                         List(<<Str("Physics"), Str("Earth Science")>>))),
     WithBibData(Str("{\"doctype\": \"article\", \"refereed\": true}")),
     Message(Str("b1"), Absent, Absent, Str("{\"refereed\": true}"), Str("Planetary")),
     Str("{\"bibcode\": \"b1\", \"bib_data\": \"{\\\"refereed\\\": true}\"}"),
     Message(Absent, Str("s1"), BibData(Str("eprint"), Absent, Absent, Absent, Absent),
             Absent, Absent),
     Message(Absent, Absent, BibData(Str("article"), Absent, Absent, Absent, Absent),
             Absent, Absent)}

MalformedMessages ==
    {WithBibData(Str("{bad")),
     WithBibData(Str("[]")),
     WithBibData(None),
     Message(Str("b1"), Absent, Absent, Str("5"), Absent),
     WithBibData(BibData(IntV(5), Absent, Absent, Absent, Absent)),
     WithBibData(BibData(Str("article"), Absent, Str("2025/06/10"), Absent, Absent)),
     WithBibData(BibData(Str("article"), Absent, Str("2025-06-10"), Str("June"), Absent)),
     WithBibData(BibData(Str("article"), Absent, IntV(20250610), Absent, Absent)),
     WithBibData(BibData(Str("article"), Absent, Absent, Absent, IntV(7))),
     WithClassifications(IntV(5)),
     WithClassifications(Dict([physics |-> IntV(1)])),
     Message(Absent, Str("s1"), Absent, Absent, Bool(TRUE)),
     Strip([bibcode |-> Str("b1"), collections |-> IntV(5)]),
     Strip([bibcode |-> Str("b1"), collections |-> Str("physics")]),
     Str("{bad"),
     Str("[]"),
     List(<<>>)}

\* records that set the factors against each other: metrics and bib_data
\* disagreeing on refereed, the worst and an unranked doctype, one date of
\* two usable, an age between 12 and 24 months, general named explicitly
ScoringMessages ==
    {Message(Str("b1"), Absent,
             BibData(Str("misc"), Bool(TRUE), Str("2024-01-15"), Absent, Absent),
             Dict([refereed |-> Bool(FALSE)]), Absent),
     Message(Str("b1"), Absent,
             BibData(Str("preprint"), Bool(FALSE), Absent, Str("2025-05-20"), Absent),
             Dict([refereed |-> Bool(TRUE)]), List(<<Str("General"), Str("physics")>>)),
     WithBibData(BibData(Str("book"), Absent, Str("2025-13-01"), Str("2025-05-20"),
                         Str("Heliophysics"))),
     \* classifications that hold only an empty value, next to a database
     Message(Str("b1"), Absent,
             BibData(Str("article"), Absent, Absent, Absent, Str("Physics")),
             Absent, List(<<Str("")>>)),
     \* an entry date with the day 00, and no publication date
     WithBibData(BibData(Str("article"), Absent, Absent, Str("2025-05-00"), Absent)),
     \* a publication date nineteen months ahead, in one collection
     Message(Str("b1"), Absent,
             BibData(Str("article"), Absent, Str("2027-01-15"), Absent, Absent),
             Absent, List(<<Str("astrophysics")>>))}

EngineMessages == WellFormedMessages \cup MalformedMessages \cup ScoringMessages

\* the repository's configuration with a positive weight on recency
RecencyConfig ==
    [RepoConfig EXCEPT !.BOOST_WEIGHTS =
        [refereed_boost |-> F(1, 4), doctype_boost |-> F(1, 4), recency_boost |-> F(1, 2)]]

\* a configuration tuned away from the repository's: a 12-month cut-off,
\* weights that sum to 2, and a relevance matrix with gaps
TunedConfig ==
    [RepoConfig EXCEPT
        !.RECENCY_BOOST_MAX_AGE_MONTHS = 12,
        !.BOOST_WEIGHTS =
            [refereed_boost |-> F(1, 2), doctype_boost |-> F(1, 2), recency_boost |-> F(1, 1)],
        !.COLLECTION_RANKINGS =
            [astrophysics |-> [astrophysics |-> IntV(1), physics |-> IntV(2),
                               general |-> None],
             heliophysics |-> [heliophysics |-> IntV(1), physics |-> IntV(3),
                               planetary |-> IntV(2)]]]

EngineConfigs == {RepoConfig, RecencyConfig, TunedConfig}

InitEngine ==
    InitWith(EngineConfigs, {{m} : m \in EngineMessages}, 1..EngineWorkers, EngineDeliveries)

SpecEngine == InitEngine /\ [][Next]_vars

\* ------------------------------------------------------------------------
\* The engine under configurations at the edges of what a deployment may
\* set: one doctype rank for all, weights that sum to 0, no weights at all,
\* relevance tables without a rank or with a single one
\* ------------------------------------------------------------------------
FlatConfig ==
    [RepoConfig EXCEPT !.DOCTYPE_RANKING = [article |-> 1, eprint |-> 1, book |-> 1]]

ZeroWeightsConfig ==
    [RepoConfig EXCEPT
        !.BOOST_WEIGHTS =
            [refereed_boost |-> Zero, doctype_boost |-> Zero, recency_boost |-> Zero]]

\* the configuration without the key BOOST_WEIGHTS
UnweightedConfig ==
    [k \in DOMAIN RepoConfig \ {"BOOST_WEIGHTS"} |-> RepoConfig[k]]

\* relevance tables whose entries are all None
BlankRankingsConfig ==
    [RepoConfig EXCEPT
        !.COLLECTION_RANKINGS =
            [astrophysics |-> [astrophysics |-> None, physics |-> None],
             physics |-> [physics |-> None]]]

\* relevance tables that hold one rank only
OneRankConfig ==
    [RepoConfig EXCEPT
        !.COLLECTION_RANKINGS =
            [astrophysics |-> [astrophysics |-> IntV(2), physics |-> IntV(2)],
             physics |-> [physics |-> IntV(2), general |-> None]]]

EdgeConfigs ==
    {FlatConfig, ZeroWeightsConfig, UnweightedConfig, BlankRankingsConfig, OneRankConfig}

InitEdge ==
    InitWith(EdgeConfigs, {{m} : m \in WellFormedMessages \cup ScoringMessages},
             1..EngineWorkers, EngineDeliveries)

SpecEdge == InitEdge /\ [][Next]_vars

\* ------------------------------------------------------------------------
\* One record scored more than once, by the workers of the deployment, as
\* the days pass: records of several ages
\* ------------------------------------------------------------------------
\* a message with bibcode b1, doctype article and the given dates
Dated(pubdate, entry_date) ==
    WithBibData(BibData(Str("article"), Bool(TRUE), pubdate, entry_date, Absent))

RescoreMessages ==
    {Dated(Str("2025-06-10"), Absent),
     Dated(Str("2023-06-16"), Absent),
     Dated(Str("2020-01-01"), Absent),
     Dated(Str("2025-06-10"), Str("2019-12-00")),
     Dated(Str("2025/06/10"), Absent),
     Dated(Absent, Absent)}

InitRescore ==
    InitWith(EngineConfigs, {{m} : m \in RescoreMessages}, Workers, MaxDeliveries)

\* the scoring steps alone: each worker takes the record off either queue and
\* scores it, at whatever day it is
Rescore ==
    \/ \E w \in Workers : ReceiveMessage(w)
    \/ \E w \in Workers : ReceiveCompute(w)
    \/ Tick

SpecRescore == InitRescore /\ [][Rescore]_vars

\* ------------------------------------------------------------------------
\* Properties
\* ------------------------------------------------------------------------
\* a float inside [0,1]
InUnit(v) == IsFloat(v) /\ FLe(Zero, v) /\ FLe(v, One)

\* a record that carries a non-empty bibcode or scix_id
HasIdentifier(record) ==
    \/ Truthy(Get(record, "bibcode", None))
    \/ Truthy(Get(record, "scix_id", None))

\* worker w runs, or has run, process_boost_request on a request dict
Processing(w) ==
    wk[w].entry = "message" /\ wk[w].pc # "idle" /\ IsDict(wk[w].request)

\* C1: every value of every result compute_final_boost returns (the three
\* factors, boost_factor, the discipline weights and the final boosts) lies
\* in [0,1], for every record and every configuration with non-negative
\* weights.
C1_ResultInUnitInterval ==
    \A w \in Workers :
        IsDict(wk[w].boost_factors) =>
            \A k \in DOMAIN wk[w].boost_factors.d : InUnit(wk[w].boost_factors.d[k])

\* two rows that stand for one identifier
SameIdentifier(r, s) ==
    \/ (Truthy(r.bibcode) /\ r.bibcode = s.bibcode)
    \/ (Truthy(r.scix_id) /\ r.scix_id = s.scix_id)

\* C2: whatever the interleaving of the store_boost_factors calls of
\* concurrent workers, the table never holds two rows for one bibcode or one
\* scix_id.
C2_OneRowPerIdentifier ==
    \A i, j \in 1..Len(table) : i # j => ~SameIdentifier(table[i], table[j])

\* C3: a record with a non-empty bibcode or scix_id is processable, so
\* process_boost_request scores it; a record with neither is rejected and is
\* not scored on any entry point.
C3_ProcessableIffIdentified ==
    \A w \in Workers :
        (wk[w].pc = "done" /\ IsDict(wk[w].request)) =>
            /\ (wk[w].entry = "message" /\ HasIdentifier(wk[w].parsed))
                  => wk[w].boost_factors # None
            /\ ~HasIdentifier(wk[w].parsed) => wk[w].boost_factors = None

\* C4: the boost_factor computed for a record is persisted and returned:
\* every row holds a number in its boost_factor column, and every result of
\* query_boost_factors for the row's identifier carries it.
C4_BoostFactorPersisted ==
    \A i \in 1..Len(table) :
        /\ IsFloat(table[i].cols["boost_factor"])
        /\ \A r \in query_boost_factors(table, table[i].bibcode, table[i].scix_id) :
              "boost_factor" \in DOMAIN r

\* the positions of the responses forwarded for delivery d
ResponsesFor(d) == {i \in 1..Len(outbox) : outbox[i].delivery = d}

\* C5 for the request worker w runs: compute before store, store before
\* forward, one call of each, and an exception ends the task with that
\* exception and without a response
StoreThenForward(w) ==
    /\ wk[w].store_calls <= 1
    /\ Cardinality(ResponsesFor(wk[w].delivery)) <= 1
    /\ wk[w].pc \in {"query", "commit"} => IsDict(wk[w].boost_factors) /\ ~wk[w].stored
    /\ wk[w].stored => IsDict(wk[w].boost_factors) /\ wk[w].store_calls = 1
    /\ wk[w].pc = "forward" => wk[w].stored /\ ResponsesFor(wk[w].delivery) = {}
    /\ ResponsesFor(wk[w].delivery) # {} =>
          /\ wk[w].stored /\ wk[w].pc = "done" /\ wk[w].outcome = Str("success")
          /\ \E i \in 1..Len(table) : table[i].bibcode = wk[w].parsed["bibcode"]
    /\ (wk[w].pc = "done" /\ wk[w].store_calls = 1 /\ ~wk[w].stored) =>
          wk[w].outcome = Raise("OperationalError")
    /\ (wk[w].pc = "done" /\ wk[w].stored /\ ResponsesFor(wk[w].delivery) = {}) =>
          wk[w].outcome = Raise("TransportError")
    /\ IsRaise(wk[w].outcome) => ResponsesFor(wk[w].delivery) = {}

\* C5: in process_boost_request a response is forwarded at most once per
\* request and only after store_boost_factors has committed a row for the
\* record; store_boost_factors is called at most once; when the store or the
\* forward raises, the task ends with that very exception, and after a
\* storage failure no response is forwarded.
C5_StoreThenForwardOnce == \A w \in Workers : Processing(w) => StoreThenForward(w)

\* C5 happens: a request was stored and then forwarded
C5_Forwarded ==
    \E w \in Workers :
        /\ Processing(w) /\ wk[w].pc = "done" /\ wk[w].stored
        /\ ResponsesFor(wk[w].delivery) # {}
        /\ Len(table) > 0

\* C6: a message that carries neither bibcode nor scix_id ends
\* task_process_boost_request_message with an error, never with "success".
C6_NoIdentifierIsError ==
    \A w \in Workers :
        (Processing(w) /\ wk[w].pc = "done" /\ ~HasIdentifier(wk[w].request.d)) =>
            IsRaise(wk[w].outcome)

\* the keys of a complete result under the configured COLLECTIONS
ResultKeys(cfg) ==
    FactorNames \cup {"boost_factor"}
        \cup {c \o "_weight" : c \in Range(Get(cfg, "COLLECTIONS", DefaultCollections))}
        \cup {c \o "_final_boost" : c \in Range(Get(cfg, "COLLECTIONS", DefaultCollections))}

\* a section of the request as the inbound format allows it: missing, a
\* mapping, or a string (of JSON or not)
SectionGiven(request, k) == ~Has(request, k) \/ request[k].t \in {"dict", "str"}

\* C7: for a request dict with a bibcode whose bib_data and metrics are
\* mappings or strings, whatever is malformed in it (a string that is not
\* JSON or decodes to a non-mapping, a date that is no YYYY-MM-DD string, a
\* doctype that is no string, a collection value that is no sequence),
\* normalisation followed by compute_final_boost returns a complete result
\* and raises nothing.
C7_MalformedInputRecovered ==
    \A w \in Workers :
        (/\ Processing(w) /\ Truthy(Get(wk[w].request.d, "bibcode", None))
         /\ SectionGiven(wk[w].request.d, "bib_data")
         /\ SectionGiven(wk[w].request.d, "metrics")) =>
            /\ IsDict(wk[w].boost_factors)
            /\ DOMAIN wk[w].boost_factors.d = ResultKeys(config)

\* C8: after _parse_master_pipeline_message, for every request dict, bib_data
\* and metrics are mappings and classifications and collections are
\* sequences.
C8_NormalisedShapes ==
    \A w \in Workers :
        Processing(w) =>
            /\ IsDict(wk[w].parsed["bib_data"]) /\ IsDict(wk[w].parsed["metrics"])
            /\ IsList(wk[w].parsed["classifications"])
            /\ IsList(wk[w].parsed["collections"])

\* a value list() cannot turn into a list
NotIterable(v) == Truthy(v) /\ v.t \notin {"list", "str", "dict"}

\* a normalisation step fails: classifications or collections is there and
\* is neither a list nor a string nor empty nor iterable
NormalisationFails(request) ==
    \E k \in {"classifications", "collections"} : Has(request, k) /\ NotIterable(request[k])

\* the field of the request, '' when it is missing
OrBlank(request, k) == IF Has(request, k) THEN request[k] ELSE Str("")

\* C9: for every request dict _parse_master_pipeline_message returns a record
\* with the seven fields and raises nothing; when a normalisation step fails
\* the record is the minimal safe one: the request's bibcode and scix_id (''
\* when missing), status "error", bib_data = {}, metrics = {},
\* classifications = [] and collections = [].
C9_SafeRecordOnFailure ==
    \A w \in Workers :
        Processing(w) =>
            /\ {"bibcode", "scix_id", "status", "bib_data", "metrics",
                "classifications", "collections"} \subseteq DOMAIN wk[w].parsed
            /\ NormalisationFails(wk[w].request.d) =>
                  /\ DOMAIN wk[w].parsed = {"bibcode", "scix_id", "status", "bib_data",
                                            "metrics", "classifications", "collections"}
                  /\ wk[w].parsed["bibcode"] = OrBlank(wk[w].request.d, "bibcode")
                  /\ wk[w].parsed["scix_id"] = OrBlank(wk[w].request.d, "scix_id")
                  /\ wk[w].parsed["status"] = Str("error")
                  /\ wk[w].parsed["bib_data"] = Dict(EmptyMap)
                  /\ wk[w].parsed["metrics"] = Dict(EmptyMap)
                  /\ wk[w].parsed["classifications"] = List(<<>>)
                  /\ wk[w].parsed["collections"] = List(<<>>)

\* C9 happens: a request with a bibcode whose classifications cannot be
\* coerced was normalised
C9_FellBack ==
    \E w \in Workers :
        /\ Processing(w) /\ NormalisationFails(wk[w].request.d)
        /\ Has(wk[w].request.d, "bibcode")
        /\ wk[w].parsed["status"] = Str("error")

\* workers v and w have scored the same record
ScoredTwice(v, w) ==
    /\ v # w
    /\ IsDict(wk[v].boost_factors) /\ IsDict(wk[w].boost_factors)
    /\ wk[v].parsed = wk[w].parsed

\* C10 as stated: two invocations of compute_final_boost on the same record
\* under the same configuration return identical values for every field,
\* whatever the times at which they run.
C10_IdenticalWhateverTheTimes ==
    \A v, w \in Workers : ScoredTwice(v, w) => wk[v].boost_factors = wk[w].boost_factors

\* the fields of a result that do not depend on the recency factor
TimeFreeKeys(result) ==
    {k \in DOMAIN result.d :
        k \notin {"recency_boost", "boost_factor"} /\ ~EndsWith(k, "_final_boost")}

\* the record has no usable reference date, or one more than the cut-off
\* before day t
PastCutoff(reference_date, t) ==
    \/ reference_date = None
    \/ FLt(F(CutoffMonths, 1), FDiv(F(t - reference_date.i, 1), DaysPerMonth))

\* C10, amended: two invocations of compute_final_boost on the same record
\* under the same configuration return the same fields, with identical
\* refereed_boost, doctype_boost and discipline weights whatever the times;
\* recency_boost, boost_factor and the final boosts are identical when both
\* invocations run on the same day, or when the record has no usable
\* reference date or one more than 24 months before both invocations.
C10_IdenticalOnTheSameDay ==
    \A v, w \in Workers :
        ScoredTwice(v, w) =>
            /\ DOMAIN wk[v].boost_factors.d = DOMAIN wk[w].boost_factors.d
            /\ \A k \in TimeFreeKeys(wk[v].boost_factors) :
                  wk[v].boost_factors.d[k] = wk[w].boost_factors.d[k]
            /\ (\/ wk[v].scored_at = wk[w].scored_at
                \/ /\ PastCutoff(ReferenceDate(wk[v].parsed), wk[v].scored_at)
                   /\ PastCutoff(ReferenceDate(wk[v].parsed), wk[w].scored_at))
                  => wk[v].boost_factors = wk[w].boost_factors

\* C10 happens: a record dated more than 24 months back was scored on two
\* different days
C10_OldRecordRescored ==
    \E v, w \in Workers :
        /\ ScoredTwice(v, w)
        /\ wk[v].scored_at # wk[w].scored_at
        /\ ReferenceDate(wk[v].parsed) # None
        /\ PastCutoff(ReferenceDate(wk[v].parsed), wk[v].scored_at)
        /\ PastCutoff(ReferenceDate(wk[v].parsed), wk[w].scored_at)

\* the disciplines the result's fields, the table's columns and the
\* response's fields are named after
Disciplines ==
    {"astronomy", "physics", "earth_science", "planetary_science", "heliophysics",
     "general"}

\* the sixteen fields of a result
SixteenFields ==
    FactorNames \cup {"boost_factor"}
        \cup {d \o "_weight" : d \in Disciplines}
        \cup {d \o "_final_boost" : d \in Disciplines}

\* C11: with the repository's configuration, the result of
\* compute_final_boost holds, for every record, a numeric non-negative value
\* under each of the 16 keys refereed_boost, doctype_boost, recency_boost,
\* boost_factor and <d>_weight, <d>_final_boost for d in astronomy, physics,
\* earth_science, planetary_science, heliophysics, general.
C11_SixteenNonNegativeFields ==
    config = RepoConfig =>
        \A w \in Workers :
            IsDict(wk[w].boost_factors) =>
                \A k \in SixteenFields :
                    /\ Has(wk[w].boost_factors.d, k)
                    /\ IsFloat(wk[w].boost_factors.d[k])
                    /\ FLe(Zero, wk[w].boost_factors.d[k])

\* the numeric fields of a response
BoostFields ==
    FactorNames \cup {"boost_factor"} \cup {d \o "_final_boost" : d \in Disciplines}

\* C12: with the repository's configuration, whenever a response is
\* forwarded it carries the record's bibcode and scix_id, status 3, and under
\* doctype_boost, refereed_boost, recency_boost, boost_factor and the six
\* <d>_final_boost fields the value compute_final_boost produced for the
\* record under that name.
C12_ResponseCarriesComputedBoosts ==
    config = RepoConfig =>
        \A w \in Workers :
            Processing(w) =>
                \A i \in ResponsesFor(wk[w].delivery) :
                    /\ outbox[i].message["bibcode"] = wk[w].parsed["bibcode"]
                    /\ outbox[i].message["scix_id"] = wk[w].parsed["scix_id"]
                    /\ outbox[i].message["status"] = IntV(3)
                    /\ \A k \in BoostFields :
                          /\ Has(outbox[i].message, k)
                          /\ Has(wk[w].boost_factors.d, k)
                          /\ outbox[i].message[k] = wk[w].boost_factors.d[k]

\* the section of the record is a mapping that holds a refereed flag
HasRefereed(record, section) ==
    /\ Has(record, section) /\ IsDict(record[section])
    /\ Has(record[section].d, "refereed")

\* the section's refereed flag is there and truthy
Refereed(record, section) ==
    HasRefereed(record, section) /\ Truthy(record[section].d["refereed"])

C14_MetricsDecidesConflicts ==
    \A w \in Workers :
        (/\ IsDict(wk[w].boost_factors)
         /\ HasRefereed(wk[w].parsed, "metrics") /\ HasRefereed(wk[w].parsed, "bib_data")
         /\ Refereed(wk[w].parsed, "metrics") # Refereed(wk[w].parsed, "bib_data")) =>
            wk[w].boost_factors.d["refereed_boost"] =
                (IF Refereed(wk[w].parsed, "metrics") THEN One ELSE Zero)

\* worker w has scored a record whose doctype is a string, or missing
ScoredDoctype(w) ==
    /\ IsDict(wk[w].boost_factors)
    /\ Has(wk[w].parsed, "bib_data") /\ IsDict(wk[w].parsed["bib_data"])
    /\ IsStr(Get(wk[w].parsed["bib_data"].d, "doctype", Str("")))

\* the doctype of the record worker w has scored, lower-cased
ScoredAs(w) == Lower(Get(wk[w].parsed["bib_data"].d, "doctype", Str("")).s)

\* 1 - i/(|U| - 1) for the rank r that has i of the ranks U below it
ScoreOfRank(r, U) ==
    F(Cardinality(U) - 1 - Cardinality({u \in U : u < r}), Cardinality(U) - 1)

\* C15 for a doctype d that scored s under the ranking
ScoredByRank(d, s, ranking) ==
    /\ d \notin DOMAIN ranking => s = Zero
    /\ d \in DOMAIN ranking =>
          /\ s = ScoreOfRank(ranking[d], Range(ranking))
          /\ (\A u \in Range(ranking) : ranking[d] <= u) => s = One
          /\ (\A u \in Range(ranking) : u <= ranking[d]) => s = Zero
          /\ \A e \in DOMAIN ranking :
                /\ ranking[e] = ranking[d] => DoctypeScore(Str(e), ranking) = s
                /\ ranking[d] < ranking[e] => FLe(DoctypeScore(Str(e), ranking), s)

\* C15: compute_doctype_boost scores the lower-cased doctype by its rank:
\* with U the distinct configured ranks in ascending order and |U| > 1, the
\* i-th of them (from 0) scores 1 - i/(|U| - 1); doctypes of one rank share
\* a score, a doctype that is not configured scores 0.0, a better (smaller)
\* rank never scores below a worse one, the best rank scores 1.0 and the
\* worst configured rank 0.0.
C15_DoctypeScoredByRank ==
    \A w \in Workers :
        (ScoredDoctype(w) /\ Cardinality(Range(config.DOCTYPE_RANKING)) > 1) =>
            ScoredByRank(ScoredAs(w), wk[w].boost_factors.d["doctype_boost"],
                         config.DOCTYPE_RANKING)

\* C15 happens: a doctype of a rank between the best and the worst was
\* scored, strictly between 0.0 and 1.0
C15_MiddleRankScored ==
    \E w \in Workers :
        /\ ScoredDoctype(w)
        /\ ScoredAs(w) \in DOMAIN config.DOCTYPE_RANKING
        /\ \E u, v \in Range(config.DOCTYPE_RANKING) :
              u < config.DOCTYPE_RANKING[ScoredAs(w)]
                  /\ config.DOCTYPE_RANKING[ScoredAs(w)] < v
        /\ FLt(Zero, wk[w].boost_factors.d["doctype_boost"])
        /\ FLt(wk[w].boost_factors.d["doctype_boost"], One)

\* a date field of bib_data as the inbound format allows it: missing, None
\* or a string
DateGiven(bib_data, k) == Get(bib_data.d, k, None).t \in {"none", "str"}

\* the day the field holds, None when it is missing, empty or no
\* YYYY-MM-DD date
Usable(date) == IF Truthy(date) THEN OnlyDate(Strptime(date)) ELSE None

\* the earlier of two days, the only one when the other is None, None when
\* both are
EarlierUsable(p, e) ==
    IF p = None THEN e
    ELSE IF e = None THEN p
    ELSE IF p.i <= e.i THEN p ELSE e

\* C16: the reference date of compute_recency_boost is the earlier of
\* pubdate (a day of 00 read as 01) and entry_date when both parse; when only
\* one of the two is present or parseable that one is used, and the factor is
\* the decay of its age; the neutral 1.0 for want of a date is returned only
\* when neither is present or both fail to parse.
C16_ReferenceIsEarliestUsable ==
    \A w \in Workers :
        (/\ IsDict(wk[w].boost_factors)
         /\ Has(wk[w].parsed, "bib_data") /\ IsDict(wk[w].parsed["bib_data"])
         /\ DateGiven(wk[w].parsed["bib_data"], "pubdate")
         /\ DateGiven(wk[w].parsed["bib_data"], "entry_date")) =>
            wk[w].boost_factors.d["recency_boost"] =
                RecencyOf(EarlierUsable(
                              Usable(SubstituteDay(
                                  Get(wk[w].parsed["bib_data"].d, "pubdate", None))),
                              Usable(Get(wk[w].parsed["bib_data"].d, "entry_date", None))),
                          wk[w].scored_at, config)

\* the age in months, days / 30.44, of a reference day at the time of scoring
AgeMonths(reference_date, clock) == FDiv(F(clock - reference_date.i, 1), DaysPerMonth)

\* 1.0 past the cut-off, 1 / (1 + multiplier * age_months) up to it
DecayUpTo(cutoff, age_months, multiplier) ==
    IF FLt(F(cutoff, 1), age_months) THEN One
    ELSE FDiv(One, FAdd(One, FMul(multiplier, age_months)))

\* C17: the recency cut-off is the configured RECENCY_BOOST_MAX_AGE_MONTHS
\* (24 by default): for every configured cut-off compute_recency_boost
\* returns exactly 1.0 when age_months = days / 30.44 exceeds it, and
\* 1 / (1 + multiplier * age_months) otherwise.
C17_CutoffIsConfigured ==
    \A w \in Workers :
        (/\ IsDict(wk[w].boost_factors)
         /\ ReferenceDate(wk[w].parsed) # None /\ ~IsRaise(ReferenceDate(wk[w].parsed))) =>
            wk[w].boost_factors.d["recency_boost"] =
                DecayUpTo(config.RECENCY_BOOST_MAX_AGE_MONTHS,
                          AgeMonths(ReferenceDate(wk[w].parsed), wk[w].scored_at),
                          config.RECENCY_BOOST_MULTIPLIER)

\* a + b + c
Sum3(a, b, c) == FAdd(FAdd(a, b), c)

\* C18 for a result under a table of weights for the three factors that sum
\* to total
NormalisedAverage(result, weights, total) ==
    /\ FMul(result["boost_factor"], total) =
          Sum3(FMul(weights["refereed_boost"], result["refereed_boost"]),
               FMul(weights["doctype_boost"], result["doctype_boost"]),
               FMul(weights["recency_boost"], result["recency_boost"]))
    /\ Sum3(FDiv(weights["refereed_boost"], total),
            FDiv(weights["doctype_boost"], total),
            FDiv(weights["recency_boost"], total)) = One
    /\ (/\ weights = [refereed_boost |-> F(4, 10), doctype_boost |-> F(6, 10),
                      recency_boost |-> Zero]
        /\ result["refereed_boost"] = One /\ result["doctype_boost"] = One) =>
          result["boost_factor"] = One

\* C18: whenever the configured BOOST_WEIGHTS (a table for the three
\* factors) sum to more than 0, boost_factor is the sum over refereed_boost,
\* doctype_boost and recency_boost of (weight / total) * factor, the
\* normalised weights summing to 1; under the weights 0.4, 0.6, 0.0 a record
\* with refereed_boost = doctype_boost = 1.0 has boost_factor 1.0 whatever
\* its recency_boost.
C18_NormalisedWeightedAverage ==
    \A w \in Workers :
        (/\ IsDict(wk[w].boost_factors)
         /\ DOMAIN config.BOOST_WEIGHTS = FactorNames
         /\ FLt(Zero, Sum3(config.BOOST_WEIGHTS["refereed_boost"],
                           config.BOOST_WEIGHTS["doctype_boost"],
                           config.BOOST_WEIGHTS["recency_boost"]))) =>
            NormalisedAverage(wk[w].boost_factors.d, config.BOOST_WEIGHTS,
                              Sum3(config.BOOST_WEIGHTS["refereed_boost"],
                                   config.BOOST_WEIGHTS["doctype_boost"],
                                   config.BOOST_WEIGHTS["recency_boost"]))

\* C18 happens: a record was scored under weights that do not sum to 1, its
\* three factors not all alike
C18_ScoredUnderUnnormalisedWeights ==
    \E w \in Workers :
        /\ IsDict(wk[w].boost_factors)
        /\ DOMAIN config.BOOST_WEIGHTS = FactorNames
        /\ FLt(One, Sum3(config.BOOST_WEIGHTS["refereed_boost"],
                         config.BOOST_WEIGHTS["doctype_boost"],
                         config.BOOST_WEIGHTS["recency_boost"]))
        /\ wk[w].boost_factors.d["refereed_boost"] # wk[w].boost_factors.d["doctype_boost"]
        /\ FLt(Zero, wk[w].boost_factors.d["boost_factor"])
        /\ FLt(wk[w].boost_factors.d["boost_factor"], One)

\* the record names no collection: no classifications and no
\* bib_data.database
NamesNoCollection(record) ==
    /\ ~Truthy(Get(record, "classifications", None))
    /\ \/ ~Has(record, "bib_data")
       \/ /\ IsDict(record["bib_data"])
          /\ ~Truthy(Get(record["bib_data"].d, "database", None))

\* the record's own collections name general
NamesGeneral(record) ==
    /\ IsList(RecordCollections(record))
    /\ "general" \in Range(RecordCollections(record).l)

\* C19: a record whose own collections include general, named by the record
\* or by default (no classifications and no bib_data.database), gets weight
\* 1.0 for every configured discipline whatever COLLECTION_RANKINGS holds,
\* so that every final boost equals boost_factor.
C19_GeneralWeighsOne ==
    \A w \in Workers :
        (/\ IsDict(wk[w].boost_factors)
         /\ NamesNoCollection(wk[w].parsed) \/ NamesGeneral(wk[w].parsed)) =>
            \A c \in Range(config.COLLECTIONS) :
                /\ wk[w].boost_factors.d[c \o "_weight"] = One
                /\ wk[w].boost_factors.d[c \o "_final_boost"] =
                      wk[w].boost_factors.d["boost_factor"]

\* C19 happens: a record that names general next to a collection with a
\* table of its own was scored, with a boost_factor above 0
C19_GeneralNamedWithAnother ==
    \E w \in Workers :
        /\ IsDict(wk[w].boost_factors)
        /\ ~NamesNoCollection(wk[w].parsed) /\ NamesGeneral(wk[w].parsed)
        /\ \E c \in Range(RecordCollections(wk[w].parsed).l) :
              c # "general" /\ c \in DOMAIN config.COLLECTION_RANKINGS
        /\ FLt(Zero, wk[w].boost_factors.d["boost_factor"])
        /\ wk[w].boost_factors.d["general_weight"] = One

\* the rank a collection's table gives the discipline, None when it gives none
RankIn(rankings, discipline) == Get(rankings, discipline, None)

\* under the table of the record's collection, a discipline of a smaller
\* rank number never weighs less than one of a larger
WeightsFollowRanks(result, rankings, collections) ==
    \A d, e \in Range(collections) :
        (/\ RankIn(rankings, d) # None /\ RankIn(rankings, e) # None
         /\ RankIn(rankings, d).i < RankIn(rankings, e).i) =>
            FLe(result[e \o "_weight"], result[d \o "_weight"])

\* C20: rank 1 means highest relevance: for a record whose only collection
\* is c, other than general, a discipline ranked r1 in c's table weighs at
\* least as much as one ranked r2 whenever r1 < r2, so that the discipline
\* ranked 1 has the highest weight.
C20_RankOneWeighsMost ==
    \A w \in Workers :
        (/\ IsDict(wk[w].boost_factors)
         /\ IsList(RecordCollections(wk[w].parsed))
         /\ Len(RecordCollections(wk[w].parsed).l) = 1
         /\ RecordCollections(wk[w].parsed).l[1] # "general"
         /\ RecordCollections(wk[w].parsed).l[1] \in DOMAIN config.COLLECTION_RANKINGS) =>
            WeightsFollowRanks(wk[w].boost_factors.d,
                               config.COLLECTION_RANKINGS[
                                   RecordCollections(wk[w].parsed).l[1]],
                               config.COLLECTIONS)

\* C21: for every configured discipline d the result of compute_final_boost
\* has final_boost[d] = weight[d] * boost_factor, boost_factor being the
\* combined scalar of the same result; hence final_boost[d] <= boost_factor,
\* and final_boost[d] = 0 whenever weight[d] = 0.
C21_FinalBoostIsWeightedFactor ==
    \A w \in Workers :
        IsDict(wk[w].boost_factors) =>
            \A c \in Range(config.COLLECTIONS) :
                /\ wk[w].boost_factors.d[c \o "_final_boost"] =
                      FMul(wk[w].boost_factors.d[c \o "_weight"],
                           wk[w].boost_factors.d["boost_factor"])
                /\ FLe(wk[w].boost_factors.d[c \o "_final_boost"],
                       wk[w].boost_factors.d["boost_factor"])
                /\ wk[w].boost_factors.d[c \o "_weight"] = Zero =>
                      wk[w].boost_factors.d[c \o "_final_boost"] = Zero

\* the commit of store_boost_factors for the request worker w runs leaves a
\* row of the request's bibcode that holds the request's factors, and changes
\* no row of another bibcode
StoresOwnRow(w) ==
    (Processing(w) /\ wk[w].pc = "commit" /\ wk'[w].stored) =>
        /\ \E i \in 1..Len(table') :
              /\ table'[i].bibcode = StoreBibcode(wk[w])
              /\ \A c \in AssignedColumns :
                    table'[i].cols[c] = AssignedValue(wk[w].boost_factors, c)
        /\ \A i \in 1..Len(table) :
              table'[i] # table[i] => table[i].bibcode = StoreBibcode(wk[w])

\* C22: after any sequence of records processed through
\* process_boost_request, the table holds for each processed bibcode b a row
\* with bibcode b and the factors computed from the latest record with
\* bibcode b, and storing a record never creates or updates the row of
\* another bibcode, also when records of different bibcodes all lack a
\* scix_id (normalised to the empty string).
C22_StoreKeepsToItsBibcode == [][\A w \in Workers : StoresOwnRow(w)]_vars

\* worker w runs, or has run, task_compute_boost_factors on a record dict
Computing(w) ==
    wk[w].entry = "compute" /\ wk[w].pc # "idle" /\ IsDict(wk[w].request)

\* C23: every scoring is preceded by normalisation, so both entry points
\* agree: for any inbound record (bib_data or metrics JSON-encoded as a
\* string, classifications a single string or another non-list value
\* included) task_compute_boost_factors returns the result
\* process_boost_request computes for that record after
\* _parse_master_pipeline_message.
C23_ComputeTaskNormalises ==
    \A w \in Workers :
        Computing(w) =>
            wk[w].boost_factors =
                compute_final_boost(_parse_master_pipeline_message(wk[w].request.d),
                                    wk[w].scored_at, config)

\* worker w has taken a request with a bibcode whose doctype is a string, or
\* missing, as far as the scoring
TakenDoctype(w) ==
    /\ Processing(w) /\ Truthy(Get(wk[w].parsed, "bibcode", None))
    /\ IsDict(wk[w].parsed["bib_data"])
    /\ IsStr(Get(wk[w].parsed["bib_data"].d, "doctype", Str("")))

\* C24: when DOCTYPE_RANKING holds exactly one distinct rank,
\* compute_doctype_boost returns 1.0 for every doctype configured with that
\* rank and 0.0 for a doctype that is not configured, and raises nothing.
C24_OneRankScoresOne ==
    \A w \in Workers :
        (/\ TakenDoctype(w)
         /\ Cardinality(Range(Get(config, "DOCTYPE_RANKING", EmptyMap))) = 1) =>
            /\ IsDict(wk[w].boost_factors)
            /\ wk[w].boost_factors.d["doctype_boost"] =
                  (IF ScoredAs(w) \in DOMAIN config.DOCTYPE_RANKING THEN One ELSE Zero)

\* the configured BOOST_WEIGHTS are absent, or sum to 0 or less
NoUsableWeights(cfg) ==
    \/ ~Has(cfg, "BOOST_WEIGHTS")
    \/ DOMAIN cfg.BOOST_WEIGHTS = {}
    \/ FLe(SumF(cfg.BOOST_WEIGHTS, DOMAIN cfg.BOOST_WEIGHTS), Zero)

\* C25: when BOOST_WEIGHTS is absent from the configuration or its values
\* sum to 0 or less, the combiner computes the weighted average under the
\* default weighting (refereed 0.6, doctype 0.4, recency 0.0); the unweighted
\* mean of the three factors is used only when that default weighting is
\* itself degenerate, which it is not.
C25_DefaultWeightsWhenUnusable ==
    \A w \in Workers :
        (IsDict(wk[w].boost_factors) /\ NoUsableWeights(config)) =>
            wk[w].boost_factors.d["boost_factor"] =
                Sum3(FMul(F(6, 10), wk[w].boost_factors.d["refereed_boost"]),
                     FMul(F(4, 10), wk[w].boost_factors.d["doctype_boost"]),
                     FMul(Zero, wk[w].boost_factors.d["recency_boost"]))

\* bib_data with a day of 00 replaced by 01 in pubdate and in entry_date
WithFirstDays(bib_data) ==
    Dict([k \in DOMAIN bib_data.d |->
            IF k \in {"pubdate", "entry_date"} THEN SubstituteDay(bib_data.d[k])
            ELSE bib_data.d[k]])

\* C26: a day of 00 in a record date is read as 01 before parsing, for
\* pubdate and for entry_date alike: a record whose only date, or whose
\* earlier date, is YYYY-MM-00 gets the recency factor of the same record
\* with YYYY-MM-01.
C26_DayZeroReadAsFirst ==
    \A w \in Workers :
        (/\ IsDict(wk[w].boost_factors)
         /\ Has(wk[w].parsed, "bib_data") /\ IsDict(wk[w].parsed["bib_data"])
         /\ DateGiven(wk[w].parsed["bib_data"], "pubdate")
         /\ DateGiven(wk[w].parsed["bib_data"], "entry_date")) =>
            wk[w].boost_factors.d["recency_boost"] =
                compute_recency_boost(
                    Put(wk[w].parsed, "bib_data", WithFirstDays(wk[w].parsed["bib_data"])),
                    wk[w].scored_at, config)

\* ages, in days, to compare a scored record with: far and near ahead of the
\* day of scoring, that day, and behind it up to and past the cut-off
ComparedAges == {-600, -300, -30, 0, 30, 365, 730, 731, 1000}

\* an age in days within the 24 months of the cut-off
UpToCutoff(days) == FLe(FDiv(F(days, 1), DaysPerMonth), F(CutoffMonths, 1))

\* C27 for a reference date of age `days` that scored s, against the score
\* of every compared age
MonotoneAt(days, s, cfg) ==
    /\ days = 0 => s = One
    /\ ~UpToCutoff(days) => s = One
    /\ \A other \in ComparedAges :
          /\ (other < days /\ UpToCutoff(days)) => FLe(s, Decay(other, cfg))
          /\ (days < other /\ UpToCutoff(other)) => FLe(Decay(other, cfg), s)

\* C27: recency is monotone up to the cut-off: for two reference dates of
\* ages a1 < a2 <= 24 months, whatever the sign of the ages,
\* recency_score(a1) >= recency_score(a2); the score is exactly 1.0 at age 0
\* and exactly 1.0 for every age above 24 months.
C27_RecencyMonotone ==
    \A w \in Workers :
        (/\ IsDict(wk[w].boost_factors)
         /\ ReferenceDate(wk[w].parsed) # None /\ ~IsRaise(ReferenceDate(wk[w].parsed))) =>
            MonotoneAt(wk[w].scored_at - ReferenceDate(wk[w].parsed).i,
                       wk[w].boost_factors.d["recency_boost"], config)

\* what the pair of a record collection and a discipline contributes: the
\* weight of its rank, 0.0 when the pair has no rank
Contribution(collection, discipline, collection_rankings) ==
    IF RankIn(Get(collection_rankings, collection, EmptyMap), discipline) = None
    THEN Zero
    ELSE RankToWeight(Reverse(SortAsc(AllRanks(collection_rankings))),
                      RankIn(collection_rankings[collection], discipline).i)

\* the largest of the contributions of the record's collections, 0.0 at least
LargestContribution(record_collections, discipline, collection_rankings) ==
    CHOOSE x \in {Zero} \cup {Contribution(c, discipline, collection_rankings) :
                                c \in Range(record_collections)} :
        \A c \in Range(record_collections) :
            FLe(Contribution(c, discipline, collection_rankings), x)

\* C28: for a record without the general collection and with
\* COLLECTION_RANKINGS configured, the weight of each discipline is the
\* maximum, over the record's own collections, of the rank-derived weight in
\* that collection's table for the discipline, an absent or None pair
\* contributing 0.0; a discipline with no applicable entry in any of the
\* record's collections weighs 0.0, whatever COLLECTION_RANKINGS holds,
\* tables whose entries are all absent included.
C28_WeightIsLargestContribution ==
    \A w \in Workers :
        (/\ IsDict(wk[w].boost_factors)
         /\ IsList(RecordCollections(wk[w].parsed))
         /\ "general" \notin Range(RecordCollections(wk[w].parsed).l)
         /\ DOMAIN config.COLLECTION_RANKINGS # {}) =>
            \A d \in Range(config.COLLECTIONS) :
                wk[w].boost_factors.d[d \o "_weight"] =
                    LargestContribution(RecordCollections(wk[w].parsed).l, d,
                                        config.COLLECTION_RANKINGS)

\* the names bib_data.database yields
DatabaseNames(record) ==
    IF Has(record, "bib_data") /\ IsDict(record["bib_data"])
    THEN NamesOf(Get(record["bib_data"].d, "database", None))
    ELSE <<>>

\* the names of the first source that yields one, general when none does
FirstNames(from_classifications, from_database) ==
    IF from_classifications # <<>> THEN from_classifications
    ELSE IF from_database # <<>> THEN from_database
    ELSE <<"general">>

\* C29: the record's own collections are taken from classifications when it
\* yields at least one name and otherwise from bib_data.database (whenever
\* classifications yields no usable name: it is empty, holds only empty
\* values, or is no string or list); each name is lower-cased with spaces
\* replaced by underscores, and the record is the single collection general
\* only when both sources yield nothing.
C29_DatabaseWhenNoClassification ==
    \A w \in Workers :
        IsDict(wk[w].boost_factors) =>
            \A d \in Range(config.COLLECTIONS) :
                wk[w].boost_factors.d[d \o "_weight"] =
                    DisciplineWeight(
                        FirstNames(NamesOf(Get(wk[w].parsed, "classifications", None)),
                                   DatabaseNames(wk[w].parsed)),
                        d, config)

\* worker w has scored a record whose only collection, other than general,
\* has a table in COLLECTION_RANKINGS
ScoredInOneCollection(w) ==
    /\ IsDict(wk[w].boost_factors)
    /\ IsList(RecordCollections(wk[w].parsed))
    /\ Len(RecordCollections(wk[w].parsed).l) = 1
    /\ RecordCollections(wk[w].parsed).l[1] # "general"
    /\ RecordCollections(wk[w].parsed).l[1] \in DOMAIN config.COLLECTION_RANKINGS

\* the table of the only collection of the record worker w has scored
OwnRankings(w) == config.COLLECTION_RANKINGS[RecordCollections(wk[w].parsed).l[1]]

\* 1.0 - 0.9 * i / (n - 1) for the rank r that has i of the n ranks above
\* it, 1.0 for n = 1
WeightOfRank(r, ranks) ==
    IF Cardinality(ranks) = 1 THEN One
    ELSE F(10 * (Cardinality(ranks) - 1) - 9 * Cardinality({u \in ranks : u > r}),
           10 * (Cardinality(ranks) - 1))

\* C30 for the weight a discipline of rank r got, `ranks` being the ranks
\* found anywhere in COLLECTION_RANKINGS
WeighedByRank(weight, r, ranks) ==
    /\ weight = WeightOfRank(r, ranks)
    /\ FLe(F(1, 10), weight) /\ FLe(weight, One)
    /\ (\A u \in ranks : u <= r) => weight = One
    /\ ((\A u \in ranks : r <= u) /\ Cardinality(ranks) > 1) => weight = F(1, 10)

====
